---- MODULE Spec2Model ----
(***************************************************************************)
(* A model of the WorkForce contribution dashboard:                        *)
(*   - Backend/services/api.ts : the endpoint setting, the roster          *)
(*     (fetchUsers), the score request (calculateScore) and the simulated  *)
(*     advanced metrics (generateAdvancedMetrics, generateHistory);        *)
(*   - App.tsx : the login gate, loadData (fan-out of one calculateScore   *)
(*     per roster member, Promise.all, setPerformances), handleRetry and   *)
(*     the render branches that decide which controls exist;               *)
(*   - LoginPage.tsx : handleSubmit and its timer;                         *)
(*   - UserDetail.tsx : the score composition shown for a member.          *)
(*                                                                         *)
(* Strings are sequences of one-character strings, so that split,          *)
(* includes, replace and the comparison of ids are computed, not assumed.  *)
(* Numbers that the program keeps as floating point (difficulty_factor,    *)
(* scores) are kept in tenths: 1.2 is 12, a score of 130 is 1300.          *)
(***************************************************************************)
EXTENDS Integers, Sequences, FiniteSets, TLC

VARIABLES
    isLoggedIn,     \* App: useState(false)
    users,          \* App: useState<User[]>([])
    performances,   \* App: useState<FullUserPerformance[]>([])
    loading,        \* App: useState(true)
    error,          \* App: useState<string | null>(null)
    apiUrl,         \* App: useState(getApiBaseUrl())
    API_BASE,       \* api.ts: the module-level endpoint
    loginIsLoading, \* LoginPage: useState(false)
    loginTimer,     \* LoginPage: the setTimeout of handleSubmit is pending
    effectPending,  \* App: the [isLoggedIn] effect is scheduled, not yet run
    pc,             \* loadData: where the (single) invocation is suspended
    results,        \* loadData: the array Promise.all fills, one slot per promise
    inflight,       \* network: per user id, the base URLs of its pending requests
    outOfOrder,     \* history: some request settled before an earlier roster member's
    calls,          \* the last two calculateScore calls made directly on api.ts
    hung,           \* network: the user ids whose pending request is never answered
    view            \* UserDetail: the analysis summary shown and its Evidence Log

vars == <<isLoggedIn, users, performances, loading, error, apiUrl, API_BASE,
          loginIsLoading, loginTimer, effectPending, pc, results, inflight,
          outOfOrder, calls, hung, view>>

appVars == <<isLoggedIn, users, performances, loading, error, apiUrl, API_BASE,
             loginIsLoading, loginTimer, effectPending, pc, results, inflight,
             outOfOrder, hung>>

-----------------------------------------------------------------------------
(* Strings *)

\* The characters the model uses, in UTF-16 code unit order.
Chars == <<"-", "/", "0", "8", ":", "A", "B", "C", "D", "E", "F", "H", "I",
           "K", "L", "M", "N", "O", "R", "T", "V",
           "a", "b", "c", "d", "e", "f", "h", "i", "k", "l", "m", "n", "o",
           "p", "r", "s", "t", "v">>

CharCode(c) == CHOOSE i \in 1..Len(Chars) : Chars[i] = c

LowerCase == <<"a", "b", "c", "d", "e", "f", "h", "i", "k", "l", "m", "n",
               "o", "r", "t", "v">>
UpperCase == <<"A", "B", "C", "D", "E", "F", "H", "I", "K", "L", "M", "N",
               "O", "R", "T", "V">>

\* String.prototype.toUpperCase on one character
CharToUpper(c) ==
    IF \E i \in 1..Len(LowerCase) : LowerCase[i] = c
    THEN UpperCase[CHOOSE i \in 1..Len(LowerCase) : LowerCase[i] = c]
    ELSE c

ToUpperCase(s) == [i \in 1..Len(s) |-> CharToUpper(s[i])]

\* a < b on strings: the first differing code unit decides, a proper prefix is less
StrLess(a, b) ==
    \E i \in 1..Len(b) :
        /\ i <= Len(a) + 1
        /\ \A j \in 1..(i-1) : a[j] = b[j]
        /\ \/ i = Len(a) + 1
           \/ CharCode(a[i]) < CharCode(b[i])

\* String.prototype.includes
Includes(s, sub) ==
    \E i \in 1..(Len(s) - Len(sub) + 1) : SubSeq(s, i, i + Len(sub) - 1) = sub

\* String.prototype.split on a one-character separator
RECURSIVE SplitFrom(_, _, _)
SplitFrom(s, sep, cur) ==
    IF s = <<>> THEN <<cur>>
    ELSE IF Head(s) = sep THEN <<cur>> \o SplitFrom(Tail(s), sep, <<>>)
    ELSE SplitFrom(Tail(s), sep, Append(cur, Head(s)))

Split(s, sep) == SplitFrom(s, sep, <<>>)

-----------------------------------------------------------------------------
(* Backend/services/api.ts *)

DefaultApiBase ==
    <<"h","t","t","p",":","/","/","l","o","c","a","l","h","o","s","t",":","8","0","0","0">>

\* url.replace(/\/$/, ''): one trailing slash, if any, is removed
StripTrailingSlash(url) ==
    IF Len(url) > 0 /\ url[Len(url)] = "/" THEN SubSeq(url, 1, Len(url) - 1) ELSE url

PROVIDED_USER_IDS ==
    << <<"a","l","i","c","e","-","d","e","v">>,
       <<"b","o","b","-","b","a","c","k","e","n","d">>,
       <<"c","h","a","r","l","i","e","-","f","r","o","n","t","e","n","d">>,
       <<"d","i","a","n","a","-","m","l">>,
       <<"e","t","h","a","n","-","a","r","c","h">> >>

UserIds == {PROVIDED_USER_IDS[i] : i \in 1..Len(PROVIDED_USER_IDS)}

MEMBER == <<"M","E","M","B","E","R">>

\* the User built from one id by fetchUsers
MakeUser(id) ==
    LET parts == Split(id, "-")
    IN  [ id   |-> id,
          name |-> <<CharToUpper(parts[1][1])>> \o Tail(parts[1]),
          role |-> IF Len(parts) > 1 THEN ToUpperCase(parts[2]) ELSE MEMBER ]

fetchUsers == [i \in 1..Len(PROVIDED_USER_IDS) |-> MakeUser(PROVIDED_USER_IDS[i])]

Max(a, b) == IF a >= b THEN a ELSE b

months == <<"Jan", "Feb", "Mar", "Apr", "May", "Jun">>

\* Math.random() * 40 - 20 lies in [-20, 20): the two ends, in tenths
RandomDraws == {-200, 199}

\* the draws of one generateHistory call, one per month
DrawSeqs == {[i \in 1..Len(months) |-> r] : r \in RandomDraws}

generateHistory(baseScore, draws) ==
    [i \in 1..Len(months) |->
        [ month |-> months[i],
          score |-> Max(0, baseScore + draws[i] + ((i - 1) * 2) * 10) ]]

\* a slip: the difficulty factor is left out of the base term
CalculatedScoreNoDifficulty(v) ==
    (v.base_points * 10)
      + (v.peer_kudos_count * 15)
      - (v.blocker_penalty_total * 10)

\* calculatedScore of calculateScore and of loadData (the same expression), in tenths
\* a score that is never reported below zero
CalculatedScoreFlooredAtZero(v) ==
    Max(0, (v.base_points * v.difficulty_factor)
             + (v.peer_kudos_count * 15)
             - (v.blocker_penalty_total * 10))

CalculatedScore(v) ==
    (v.base_points * v.difficulty_factor)
      + (v.peer_kudos_count * 15)
      - (v.blocker_penalty_total * 10)

\* baseScore is in tenths, and so are the thresholds it is compared with;
\* mentorship_score, async_efficiency and learning_velocity are in tenths too
\* a burnout figure that follows the score itself
burnoutRiskOfScore(baseScore) == baseScore \div 10

\* a readiness figure that falls when the score passes the threshold
promotionReadinessInverted(baseScore) == IF baseScore > 1300 THEN 60 ELSE 90

\* promotion_readiness: baseScore > 130 ? 90 : 60
promotionReadiness(baseScore) == IF baseScore > 1300 THEN 90 ELSE 60

\* burnout_risk: baseScore > 150 ? 85 : 30
burnoutRisk(baseScore) == IF baseScore > 1500 THEN 85 ELSE 30

generateAdvancedMetrics(userId, baseScore, draws) ==
    LET isDev  == \/ Includes(userId, <<"d","e","v">>)
                  \/ Includes(userId, <<"f","r","o","n","t","e","n","d">>)
                  \/ Includes(userId, <<"b","a","c","k","e","n","d">>)
        isArch == Includes(userId, <<"a","r","c","h">>)
        isMl   == Includes(userId, <<"m","l">>)
    IN  [ skills |->
            << [name |-> "Architecture",  score |-> IF isArch THEN 95 ELSE 40,
                gap |-> IF isArch THEN 0 ELSE -20],
               [name |-> "Code Quality",  score |-> IF isDev THEN 90 ELSE 70, gap |-> 5],
               [name |-> "DevOps",        score |-> IF isDev THEN 60 ELSE 30, gap |-> -15],
               [name |-> "Communication", score |-> IF baseScore > 1200 THEN 85 ELSE 60,
                gap |-> 0],
               [name |-> "Innovation",    score |-> IF isMl THEN 95 ELSE 50, gap |-> 0] >>,
          projects |->
            << [name |-> "Project Alpha", impact_value |-> "$2M", role |-> "Lead",
                contribution_pct |-> 45],
               [name |-> "Legacy Migration", impact_value |-> "Efficiency",
                role |-> "Contributor", contribution_pct |-> 20] >>,
          wellness |->
            [ burnout_risk |-> burnoutRisk(baseScore),
              async_efficiency |-> 85,
              timezone_load_balance |-> "Optimal",
              last_break_taken |-> "2 hours ago" ],
          growth |->
            [ mentorship_score    |-> IF isArch THEN 92 ELSE 45,
              learning_velocity   |-> 88,
              promotion_readiness |-> promotionReadiness(baseScore),
              next_level_skills   |-> <<"Strategic Planning", "Public Speaking">> ],
          innovation_score    |-> IF isMl THEN 92 ELSE 65,
          tech_debt_reduction |-> IF isArch THEN 450 ELSE 120,
          customer_impact     |-> baseScore,
          attrition_risk_prediction |-> IF baseScore > 1600 THEN "High" ELSE "Low",
          score_history |-> generateHistory(baseScore, draws) ]


-----------------------------------------------------------------------------
(* UserDetail.tsx: the score composition shown for a member, in tenths *)

difficultyScore(v) == v.base_points * v.difficulty_factor
\* a kudos part that counts each kudos as one point
kudosScoreUnweighted(v) == v.peer_kudos_count * 10

kudosScore(v) == v.peer_kudos_count * 15
penaltyScore(v) == v.blocker_penalty_total * 10

-----------------------------------------------------------------------------
(* What the score server may answer to POST /calculate-score/{userId} *)

Summary ==
    [ difficulty_rationale |-> "complex refactor",
      kudos_evidence       |-> <<"thanks for the review">>,
      penalty_evidence     |-> <<"blocked the release">> ]

\* nothing is shown yet
NoSummary ==
    [ difficulty_rationale |-> "", kudos_evidence |-> <<>>, penalty_evidence |-> <<>> ]

Variables(bp, df, k, pen) ==
    [ base_points |-> bp, difficulty_factor |-> df,
      peer_kudos_count |-> k, blocker_penalty_total |-> pen ]

\* a 200 answer whose JSON body is data
JsonReply(data) == [kind |-> "json", data |-> data]

\* fetch itself rejects (TypeError: Failed to fetch)
NetworkFailure == [kind |-> "network"]

\* an answer with response.ok false
HttpFailure == [kind |-> "http", status |-> 500]

\* a 200 answer whose body has no variables
NoVariablesReply == JsonReply([analysis_summary |-> Summary])

FailureReplies == {NetworkFailure, HttpFailure, NoVariablesReply}

\* the answers given to the dashboard's runs
ServerReplies ==
    FailureReplies \cup
    { JsonReply([analysis_summary |-> Summary, variables |-> Variables(100, 12, 10, 5)]),
      JsonReply([analysis_summary |-> Summary, variables |-> Variables(130, 12, 10, 0),
                 final_score |-> 990]) }

\* the variables answered to direct calls of calculateScore: difficulty 1.2 with
\* every mix of no/some base points, kudos and penalty, a neutral difficulty,
\* and a negative penalty (the connector's values are not validated)
CalcVariables ==
    { Variables(bp, 12, k, pen) : bp \in {0, 100, 130}, k \in {0, 10}, pen \in {0, 5} }
    \cup { Variables(100, 10, 0, 0), Variables(100, 12, 10, -5), Variables(70, 10, 0, 0),
            Variables(0, 10, 0, 5), Variables(0, 10, 0, 0) }

CalcReplies ==
    FailureReplies \cup
    { JsonReply([analysis_summary |-> Summary, variables |-> v]) : v \in CalcVariables }
    \cup { JsonReply([analysis_summary |-> Summary, variables |-> Variables(130, 12, 10, 0),
                      final_score |-> 990]) }

\* { ...a, ...b }
Spread(a, b) ==
    [k \in (DOMAIN a) \cup (DOMAIN b) |-> IF k \in DOMAIN b THEN b[k] ELSE a[k]]

\* the promise calculateScore(userId) settles to, given the server's answer
calculateScore(userId, reply, draws) ==
    IF reply.kind = "network" THEN
        [rejected |-> TRUE, message |-> "Network Error: Could not connect"]
    ELSE IF reply.kind = "http" THEN
        [rejected |-> TRUE, message |-> "POST /calculate-score failed"]
    ELSE IF "variables" \notin DOMAIN reply.data THEN
        [rejected |-> TRUE, message |-> "TypeError: Cannot read properties of undefined"]
    ELSE
        [ rejected |-> FALSE,
          value |-> Spread(reply.data,
                      [advanced |-> generateAdvancedMetrics(
                                      userId, CalculatedScore(reply.data.variables), draws)]) ]

-----------------------------------------------------------------------------
(* App.tsx: loadData *)

NULL == "<null>"

Pending == [state |-> "pending"]
Null == [state |-> "null"]
Fulfilled(v) == [state |-> "value", value |-> v]

\* what one mapped async function of loadData resolves to (it never rejects)
\* a result in which the fields of the answer, final_score included, come last
MemberResultKeepingServerScore(user, settled) ==
    IF settled.rejected THEN [state |-> "null"]
    ELSE IF "variables" \notin DOMAIN settled.value THEN [state |-> "null"]
    ELSE [state |-> "value",
          value |-> Spread(Spread(user,
                                  [final_score |-> CalculatedScore(settled.value.variables)]),
                           settled.value)]

MemberResult(user, settled) ==
    IF settled.rejected THEN Null
    ELSE IF "variables" \notin DOMAIN settled.value THEN Null
    ELSE Fulfilled(Spread(Spread(user, settled.value),
                          [final_score |-> CalculatedScore(settled.value.variables)]))

\* a slip: values are collected as they arrive, each into the first free slot
SetSettledInCompletionOrder(res, i, r) ==
    LET first == CHOOSE k \in 1..Len(res) :
                    /\ res[k].state = "pending"
                    /\ \A j \in 1..(k-1) : res[j].state # "pending"
    IN  [res EXCEPT ![first] = r]

\* Promise.all keeps each promise's value at the promise's own index
SetSettled(res, i, r) == [res EXCEPT ![i] = r]

RECURSIVE FilterNonNull(_)
FilterNonNull(res) ==
    IF res = <<>> THEN <<>>
    ELSE IF Head(res).state = "value" THEN <<Head(res).value>> \o FilterNonNull(Tail(res))
    ELSE FilterNonNull(Tail(res))

\* a slip: the wait ends with the first promise that settles (Promise.race)
AnySettled(res) == \E i \in 1..Len(res) : res[i].state # "pending"

AllSettled(res) == \A i \in 1..Len(res) : res[i].state # "pending"

IsPending(u) == Len(inflight[u]) > 0

\* a slip: the panel is rendered whatever loading and error are
ErrorPanelRenderedAlways == isLoggedIn

\* the render branch that shows the URL input and "Save URL & Retry"
ErrorPanelRendered == isLoggedIn /\ ~loading /\ error # NULL

UrlInputs ==
    { DefaultApiBase, Append(DefaultApiBase, "/"), <<"h", "/", "/">> }

ScoresFailedMessage ==
    "Connected to User API, but failed to calculate scores. Check backend logs."

Init ==
    /\ isLoggedIn = FALSE
    /\ users = <<>>
    /\ performances = <<>>
    /\ loading = TRUE
    /\ error = NULL
    /\ apiUrl = DefaultApiBase
    /\ API_BASE = DefaultApiBase
    /\ loginIsLoading = FALSE
    /\ loginTimer = FALSE
    /\ effectPending = TRUE
    /\ pc = "idle"
    /\ results = <<>>
    /\ inflight = [u \in UserIds |-> <<>>]
    /\ outOfOrder = FALSE
    /\ calls = <<>>
    /\ hung = {}
    /\ view = [summary |-> NoSummary, log |-> <<>>]

\* LoginPage.handleSubmit: the form exists while logged out, its button while not loading
Submit ==
    /\ ~isLoggedIn
    /\ ~loginIsLoading
    /\ loginIsLoading' = TRUE
    /\ loginTimer' = TRUE
    /\ UNCHANGED <<isLoggedIn, users, performances, loading, error, apiUrl, API_BASE,
                   effectPending, pc, results, inflight, outOfOrder, calls, hung, view>>

\* the timer of handleSubmit: setIsLoading(false); onLogin()
LoginTimerFires ==
    /\ loginTimer
    /\ loginTimer' = FALSE
    /\ loginIsLoading' = FALSE
    /\ isLoggedIn' = TRUE
    /\ effectPending' = (effectPending \/ ~isLoggedIn)
    /\ UNCHANGED <<users, performances, loading, error, apiUrl, API_BASE,
                   pc, results, inflight, outOfOrder, calls, hung, view>>

\* loadData up to its first await
LoadDataStart ==
    /\ loading' = TRUE
    /\ error' = NULL
    /\ API_BASE' = StripTrailingSlash(apiUrl)
    /\ pc' = "awaitUsers"

\* useEffect(..., [isLoggedIn])
\* an effect that loads whether or not anyone is logged in
EffectLoadsAlways == TRUE

\* the effect's test: if (!isLoggedIn) return;
EffectLoads == isLoggedIn

\* useEffect(..., [isLoggedIn]): runs after the first render and after every
\* change of isLoggedIn
LoginEffect ==
    /\ effectPending
    /\ effectPending' = FALSE
    /\ IF EffectLoads
       THEN /\ LoadDataStart
            /\ UNCHANGED <<isLoggedIn, users, performances, apiUrl, loginIsLoading,
                           loginTimer, results, inflight, outOfOrder, calls, hung, view>>
       ELSE UNCHANGED <<isLoggedIn, users, performances, loading, error, apiUrl, API_BASE,
                        loginIsLoading, loginTimer, pc, results, inflight, outOfOrder,
                        calls, hung, view>>

\* fetchUsers resolved: setUsers, then one calculateScore request per member
\* a request URL built from the text of the URL input as it stands
RequestBaseFromInput == apiUrl

\* the base of the URL calculateScore fetches: `${API_BASE}/calculate-score/...`,
\* read when the call is made
RequestBase == API_BASE

FanOut ==
    /\ pc = "awaitUsers"
    /\ users' = fetchUsers
    /\ results' = [i \in 1..Len(fetchUsers) |-> Pending]
    /\ inflight' = [u \in UserIds |->
                      IF \E i \in 1..Len(fetchUsers) : fetchUsers[i].id = u
                      THEN Append(inflight[u], RequestBase) ELSE inflight[u]]
    /\ outOfOrder' = FALSE
    /\ pc' = "awaitAll"
    /\ UNCHANGED <<isLoggedIn, performances, loading, error, apiUrl, API_BASE,
                   loginIsLoading, loginTimer, effectPending, calls, hung, view>>

\* the request of roster member i settles and its mapped function resolves
Settle(i, reply, draws) ==
    /\ pc = "awaitAll"
    /\ IsPending(users[i].id)
    /\ users[i].id \notin hung
    /\ inflight' = [inflight EXCEPT ![users[i].id] = Tail(@)]
    /\ results' = SetSettled(results, i,
                     MemberResult(users[i], calculateScore(users[i].id, reply, draws)))
    /\ outOfOrder' = (outOfOrder \/ \E j \in 1..(i-1) : IsPending(users[j].id))
    /\ UNCHANGED <<isLoggedIn, users, performances, loading, error, apiUrl, API_BASE,
                   loginIsLoading, loginTimer, effectPending, pc, calls, hung, view>>

\* Promise.all resolved: filter, setPerformances, setError, finally setLoading(false)
\* a list that is replaced only by a run in which every member succeeded
PublishedUnlessIncomplete(previous, res) ==
    IF Len(FilterNonNull(res)) = Len(res) THEN FilterNonNull(res) ELSE previous

\* setPerformances(results): the new list replaces the previous one
Published(previous, res) == FilterNonNull(res)

\* an error raised as soon as one member has no score
RunErrorOnAnyFailure(published, roster, previous) ==
    IF Len(published) < Len(roster) THEN ScoresFailedMessage ELSE previous

\* if (results.length === 0 && usersList.length > 0) setError(...)
RunError(published, roster, previous) ==
    IF Len(published) = 0 /\ Len(roster) > 0 THEN ScoresFailedMessage ELSE previous

\* a loading flag that is lowered only when some score was published
LoadingKeptOnFailure(published) == Len(published) = 0

\* finally { setLoading(false) }: the flag after the run, whatever it published
LoadingAfterRun(published) == FALSE

LoadDataFinish ==
    /\ pc = "awaitAll"
    /\ AllSettled(results)
    /\ performances' = Published(performances, results)
    /\ error' = RunError(FilterNonNull(results), users, error)
    /\ loading' = LoadingAfterRun(FilterNonNull(results))
    /\ pc' = "idle"
    /\ UNCHANGED <<isLoggedIn, users, apiUrl, API_BASE, loginIsLoading, loginTimer,
                   effectPending, results, inflight, outOfOrder, calls, hung, view>>

\* the URL input's onChange
ChangeApiUrl(url) ==
    /\ ErrorPanelRendered
    /\ apiUrl' = url
    /\ UNCHANGED <<isLoggedIn, users, performances, loading, error, API_BASE,
                   loginIsLoading, loginTimer, effectPending, pc, results, inflight,
                   outOfOrder, calls, hung, view>>

\* "Save URL & Retry": setApiBaseUrl(apiUrl); loadData()
HandleRetry ==
    /\ ErrorPanelRendered
    /\ LoadDataStart
    /\ UNCHANGED <<isLoggedIn, users, performances, apiUrl, loginIsLoading, loginTimer,
                   effectPending, results, inflight, outOfOrder, calls, hung, view>>

Next ==
    \/ Submit
    \/ LoginTimerFires
    \/ LoginEffect
    \/ FanOut
    \/ \E i \in 1..Len(users), reply \in ServerReplies, draws \in DrawSeqs :
          Settle(i, reply, draws)
    \/ LoadDataFinish
    \/ \E url \in UrlInputs : ChangeApiUrl(url)
    \/ HandleRetry

Spec == Init /\ [][Next]_vars

\* The continuation of loadData after Promise.all is a queued job: once every
\* member promise has settled it runs.
SpecLive == Spec /\ WF_vars(LoadDataFinish)

-----------------------------------------------------------------------------
(* The dashboard with a score server that may leave a request unanswered *)

\* the server will never answer the pending request of roster member i;
\* fetch is called without a signal, so nothing else ends the request
RequestHangs(i) ==
    /\ pc = "awaitAll"
    /\ IsPending(users[i].id)
    /\ users[i].id \notin hung
    /\ hung' = hung \cup {users[i].id}
    /\ UNCHANGED <<isLoggedIn, users, performances, loading, error, apiUrl, API_BASE,
                   loginIsLoading, loginTimer, effectPending, pc, results, inflight,
                   outOfOrder, calls, view>>

NextHang ==
    \/ Next
    \/ \E i \in 1..Len(users) : RequestHangs(i)

SpecHang == Init /\ [][NextHang]_vars

-----------------------------------------------------------------------------
(* DashboardOverview.tsx: the leaderboard *)

\* performances.reduce((prev, current) =>
\*     (prev.final_score > current.final_score) ? prev : current), from the left
RECURSIVE ReduceTop(_, _)
ReduceTop(prev, rest) ==
    IF rest = <<>> THEN prev
    ELSE ReduceTop(IF prev.final_score > Head(rest).final_score THEN prev ELSE Head(rest),
                   Tail(rest))

\* topPerformer: null for an empty list, else the reduction started at the
\* first entry
topPerformer(perfs) ==
    IF Len(perfs) = 0 THEN NULL ELSE ReduceTop(Head(perfs), Tail(perfs))

\* the test behind highBurnoutRisk and the red markers: burnout_risk > 70
IsHighBurnout(p) == p.advanced.wellness.burnout_risk > 70

\* where Array.prototype.sort (stable) with (a, b) => b.score - a.score puts x
\* among entries already in order: after every entry whose score is not lower
RECURSIVE InsertByScore(_, _)
InsertByScore(sorted, x) ==
    IF sorted = <<>> THEN <<x>>
    ELSE IF Head(sorted).score >= x.score
         THEN <<Head(sorted)>> \o InsertByScore(Tail(sorted), x)
         ELSE <<x>> \o sorted

RECURSIVE SortByScoreDesc(_)
SortByScoreDesc(entries) ==
    IF entries = <<>> THEN <<>>
    ELSE InsertByScore(SortByScoreDesc(SubSeq(entries, 1, Len(entries) - 1)),
                       entries[Len(entries)])

\* one leaderboard entry: { name: p.name.split(' ')[0], score: p.final_score, id: p.id, ...p }
ChartEntry(p) ==
    Spread([name |-> Split(p.name, " ")[1], score |-> p.final_score, id |-> p.id], p)

chartData(perfs) == SortByScoreDesc([i \in 1..Len(perfs) |-> ChartEntry(perfs[i])])

-----------------------------------------------------------------------------
(* UserDetail.tsx: the Evidence Log of the overview tab *)

MaxEvidence == 3

EvidenceTexts == {"reviewed the design", "late handover"}

RECURSIVE SeqsUpTo(_, _)
SeqsUpTo(S, n) ==
    IF n = 0 THEN {<<>>}
    ELSE LET shorter == SeqsUpTo(S, n - 1)
         IN  shorter \cup {Append(s, x) : s \in shorter, x \in S}

\* the analysis_summary objects a result may carry
Summaries ==
    { [ difficulty_rationale |-> "complex refactor",
        kudos_evidence       |-> ke,
        penalty_evidence     |-> pe ] :
      ke \in SeqsUpTo(EvidenceTexts, MaxEvidence), pe \in SeqsUpTo(EvidenceTexts, MaxEvidence) }

\* an Evidence Log that lists the penalties first
EvidenceLogPenaltiesFirst(summary) ==
    [i \in 1..Len(summary.penalty_evidence) |->
        [kind |-> "PENALTY", index |-> i - 1, text |-> summary.penalty_evidence[i]]]
    \o
    [i \in 1..Len(summary.kudos_evidence) |->
        [kind |-> "PEER KUDOS", index |-> i - 1, text |-> summary.kudos_evidence[i]]]

\* the <li> elements of the Evidence Log, top to bottom:
\* kudos_evidence.map(...) followed by penalty_evidence.map(...)
EvidenceLog(summary) ==
    [i \in 1..Len(summary.kudos_evidence) |->
        [kind |-> "PEER KUDOS", index |-> i - 1, text |-> summary.kudos_evidence[i]]]
    \o
    [i \in 1..Len(summary.penalty_evidence) |->
        [kind |-> "PENALTY", index |-> i - 1, text |-> summary.penalty_evidence[i]]]

\* UserDetail renders the overview tab for a result with this analysis_summary
RenderUserDetail(summary) ==
    /\ view' = [summary |-> summary, log |-> EvidenceLog(summary)]
    /\ UNCHANGED <<appVars, calls>>

DetailNext == \E summary \in Summaries : RenderUserDetail(summary)

SpecDetail == Init /\ [][DetailNext]_vars

-----------------------------------------------------------------------------
(* Direct calls of the service: calculateScore for one user, repeatedly *)

LastTwo(s) == IF Len(s) > 2 THEN Tail(s) ELSE s

CalcCall(userId, reply, draws) ==
    /\ IF calls = <<>> THEN TRUE ELSE calls[1].userId = userId
    /\ calls' = LastTwo(Append(calls,
                   [ userId |-> userId, reply |-> reply,
                     settled |-> calculateScore(userId, reply, draws) ]))
    /\ UNCHANGED <<appVars, view>>

CalcNext ==
    \E userId \in UserIds, reply \in CalcReplies, draws \in DrawSeqs :
        CalcCall(userId, reply, draws)

SpecCalc == Init /\ [][CalcNext]_vars


-----------------------------------------------------------------------------
(* Properties *)

\* a run of loadData has completed and no later one has started
RunCompleted == isLoggedIn /\ ~loading

IsFulfilled(call) == ~call.settled.rejected

\* the data model's ranges: counts and factors are not negative
ValidVariables(v) ==
    /\ v.base_points >= 0
    /\ v.difficulty_factor >= 0
    /\ v.peer_kudos_count >= 0
    /\ v.blocker_penalty_total >= 0

IsPrefix(s, t) == Len(s) <= Len(t) /\ SubSeq(t, 1, Len(s)) = s

\* the largest kudos count at which the marginal contribution is compared
MaxKudos == 3

\* C1: in a completed run, every member whose computation succeeded has its
\* result in the published set, and every member whose computation failed
\* still has an entry in the published set (the one that is to be marked
\* Incomplete with a reason).
C1_FailedMemberStillReported ==
    RunCompleted =>
        \A i \in 1..Len(users) :
            /\ results[i].state = "value" =>
                  \E k \in 1..Len(performances) : performances[k] = results[i].value
            /\ results[i].state = "null" =>
                  \E k \in 1..Len(performances) : performances[k].id = users[i].id

\* C2: after every completed run the published set holds exactly one entry per
\* roster member, whatever subset of the member computations failed.
C2_OneEntryPerRosterMember ==
    RunCompleted =>
        /\ Len(performances) = Len(users)
        /\ \A i \in 1..Len(users) :
              Cardinality({k \in 1..Len(performances) :
                              performances[k].id = users[i].id}) = 1

\* C3: the published result set is in ascending order of user id, in every
\* state, whatever the order in which the members' requests settled and
\* whichever of them failed.
C3_ResultsOrderedByUserId ==
    \A i, j \in 1..Len(performances) :
        i < j => StrLess(performances[i].id, performances[j].id)

\* a published set of a run in which some request overtook an earlier
\* member's and some member failed
C3_OutOfOrderRunPublished ==
    /\ RunCompleted
    /\ outOfOrder
    /\ Len(performances) >= 2
    /\ \E i \in 1..Len(results) : results[i].state = "null"

\* C4: no user ever has more than one calculateScore request pending, over
\* every sequence of login, load, URL change and retry.
C4_AtMostOneInFlight ==
    \A u \in UserIds : Len(inflight[u]) <= 1

\* a retry's requests are pending (the endpoint is no longer the initial one)
C4_RetryRunInFlight ==
    /\ pc = "awaitAll"
    /\ API_BASE # DefaultApiBase
    /\ \E u \in UserIds : Len(inflight[u]) = 1

\* C5: two score computations for the same user over the same server data
\* give the same result, score_history and derived indicators included.
C5_SameInputsSameResults ==
    (Len(calls) = 2 /\ calls[1].reply = calls[2].reply) =>
        calls[1].settled = calls[2].settled

\* C6: the score_history a later computation shows for a user starts with the
\* score_history the earlier computation showed, unchanged.
C6_HistoryAppendOnly ==
    (Len(calls) = 2 /\ IsFulfilled(calls[1]) /\ IsFulfilled(calls[2])) =>
        IsPrefix(calls[1].settled.value.advanced.score_history,
                 calls[2].settled.value.advanced.score_history)

\* C7: for valid variable sets the raw score is base_work times the
\* multipliers minus the penalty, the kudos entering only through a
\* multiplier: so for two valid variable sets with the same kudos count,
\* score plus penalty is proportional to base_work (and is zero when
\* base_work is zero).
C7_KudosEntersMultiplicatively ==
    \A a, b \in 1..Len(calls) :
        (/\ IsFulfilled(calls[a]) /\ IsFulfilled(calls[b])
         /\ ValidVariables(calls[a].reply.data.variables)
         /\ ValidVariables(calls[b].reply.data.variables)
         /\ calls[a].reply.data.variables.peer_kudos_count
              = calls[b].reply.data.variables.peer_kudos_count) =>
            LET va == calls[a].reply.data.variables
                vb == calls[b].reply.data.variables
            IN  (CalculatedScore(va) + penaltyScore(va)) * difficultyScore(vb)
                  = (CalculatedScore(vb) + penaltyScore(vb)) * difficultyScore(va)

\* C8: with base_points 100, difficulty_factor 1.2, peer_kudos_count 10 and
\* blocker_penalty_total 5 the computed score is 115, and that is the score
\* the derived metrics are generated from.
C8_ScenarioScoreIs115 ==
    \A k \in 1..Len(calls) :
        (IsFulfilled(calls[k])
           /\ calls[k].reply.data.variables = Variables(100, 12, 10, 5)) =>
            /\ CalculatedScore(calls[k].reply.data.variables) = 1150
            /\ calls[k].settled.value.advanced.customer_impact = 1150

\* C9: with zero kudos and zero penalty the computed score is base_work,
\* base_points scaled by difficulty_factor (the Base Difficulty term of the
\* member's score composition), and the metrics are generated from it.
C9_NeutralScoreIsBaseWork ==
    \A k \in 1..Len(calls) :
        IsFulfilled(calls[k]) =>
            LET v == calls[k].reply.data.variables
            IN  (v.peer_kudos_count = 0 /\ v.blocker_penalty_total = 0) =>
                    /\ CalculatedScore(v) = difficultyScore(v)
                    /\ calls[k].settled.value.advanced.customer_impact
                         = v.base_points * v.difficulty_factor

\* a score computed from positive base points at difficulty 1.2, no kudos, no penalty
C9_NeutralScoreComputed ==
    \E k \in 1..Len(calls) :
        /\ IsFulfilled(calls[k])
        /\ calls[k].reply.data.variables = Variables(100, 12, 0, 0)

\* C10: the contribution of kudos to the score strictly increases with the
\* kudos count and each further kudos adds strictly less than the one before:
\* f(U+2) - f(U+1) < f(U+1) - f(U).
C10_KudosDiminishingReturns ==
    \A k \in 1..Len(calls) :
        IsFulfilled(calls[k]) =>
            LET v == calls[k].reply.data.variables
                f(U) == CalculatedScore([v EXCEPT !.peer_kudos_count = U])
                          - CalculatedScore([v EXCEPT !.peer_kudos_count = 0])
            IN  \A U \in 0..MaxKudos :
                    /\ f(U + 1) > f(U)
                    /\ f(U + 2) - f(U + 1) < f(U + 1) - f(U)

\* C11: the penalty subtracted from the score is never negative, whatever the
\* connector sent, so subtracting it never raises the score above the score
\* with no penalty; and the penalty does not decrease when the friction input
\* grows.
C11_PenaltyNeverNegative ==
    \A k \in 1..Len(calls) :
        IsFulfilled(calls[k]) =>
            LET v == calls[k].reply.data.variables
            IN  /\ penaltyScore(v) >= 0
                /\ CalculatedScore(v)
                     <= CalculatedScore([v EXCEPT !.blocker_penalty_total = 0])
                /\ penaltyScore(v)
                     <= penaltyScore([v EXCEPT !.blocker_penalty_total = @ + 1])

\* C12: a member whose fetched variables hold a negative value is rejected
\* before scoring: calculateScore does not deliver a scored result for it and
\* loadData's member computation yields no scored entry.
C12_NegativeInputRejected ==
    \A k \in 1..Len(calls) :
        (/\ calls[k].reply.kind = "json"
         /\ "variables" \in DOMAIN calls[k].reply.data
         /\ ~ValidVariables(calls[k].reply.data.variables)) =>
            /\ calls[k].settled.rejected
            /\ MemberResult(MakeUser(calls[k].userId), calls[k].settled) = Null

\* C13: a run completes even when member requests are never answered: while
\* a run is waiting for its members, a step of the program or of the server
\* is always possible (a run-level timeout ends the requests that nothing
\* else will end), so the run is never stuck in the loading state.
C13_RunNeverStuckLoading ==
    (isLoggedIn /\ loading /\ pc = "awaitAll") => ENABLED NextHang

\* C14: the published result set changes only at the barrier: in a step that
\* changes it no member request of the run is pending any more, every slot of
\* the run is settled, and the new set is the run's whole filtered result;
\* no other step (a member settling, a retry starting) touches it.
C14_PublishedOnlyAfterBarrier ==
    [][ performances' # performances =>
          /\ pc = "awaitAll"
          /\ \A u \in UserIds : inflight[u] = <<>>
          /\ \A i \in 1..Len(results) : results[i].state # "pending"
          /\ Len(results) = Len(users)
          /\ performances' = FilterNonNull(results) ]_vars

\* a run whose members all succeeded, some out of roster order, is published whole
C14_FullSetPublished ==
    /\ RunCompleted
    /\ outOfOrder
    /\ Len(performances) = Len(users)
    /\ Len(users) = Len(PROVIDED_USER_IDS)

\* the place of member id on the leaderboard
Rank(board, id) == CHOOSE r \in 1..Len(board) : board[r].id = id

\* perfs with the entries at places a and b exchanged
Exchanged(perfs, a, b) ==
    [i \in 1..Len(perfs) |-> IF i = a THEN perfs[b] ELSE IF i = b THEN perfs[a] ELSE perfs[i]]

\* C15: when fewer than three members are available for ranking, no ranking
\* is exposed: the leaderboard of a completed run with one or two results is
\* empty (the result carries TeamTooSmall instead of ranks).
C15_SmallTeamNotRanked ==
    (RunCompleted /\ Len(performances) < 3) => chartData(performances) = <<>>

\* C16: a member's rank does not depend on the order of the input: exchanging
\* any two entries of the published set leaves every member's place on the
\* leaderboard unchanged (ties are broken by the members' data, not by their
\* position in the input).
C16_RankIndependentOfRosterOrder ==
    RunCompleted =>
        \A a, b \in 1..Len(performances) :
            \A k \in 1..Len(performances) :
                Rank(chartData(Exchanged(performances, a, b)), performances[k].id)
                  = Rank(chartData(performances), performances[k].id)

\* the base work of each of nine teammates
TeammateWork == [1..9 -> {0, 30}]

RECURSIVE SumTo(_, _)
SumTo(f, n) == IF n = 0 THEN 0 ELSE f[n] + SumTo(f, n - 1)

\* C17: the burnout_risk of every produced result lies in 0..100, whatever
\* the user id and the score (negative and very large scores included).
C17_BurnoutRiskInRange ==
    \A k \in 1..Len(calls) :
        IsFulfilled(calls[k]) =>
            calls[k].settled.value.advanced.wellness.burnout_risk \in 0..100

\* a result for a negative score and a result for a score above every threshold
C17_NegativeAndLargeScoresProduced ==
    /\ Len(calls) = 2
    /\ IsFulfilled(calls[1]) /\ IsFulfilled(calls[2])
    /\ CalculatedScore(calls[1].reply.data.variables) < 0
    /\ CalculatedScore(calls[2].reply.data.variables) > 1600

\* C18: in a team of ten where one member holds 70% of the team's total base
\* work, that member's burnout_risk is above the high-risk threshold.
C18_WorkloadConcentrationFlagged ==
    \A k \in 1..Len(calls) :
        IsFulfilled(calls[k]) =>
            LET v == calls[k].reply.data.variables
            IN  \A others \in TeammateWork :
                    ( /\ v.base_points > 0
                      /\ 10 * v.base_points = 7 * (v.base_points + SumTo(others, 9)) )
                    => IsHighBurnout(calls[k].settled.value)

\* the lines of the log of one kind, top to bottom
RECURSIVE TextsOfKind(_, _)
TextsOfKind(log, kind) ==
    IF log = <<>> THEN <<>>
    ELSE (IF Head(log).kind = kind THEN <<Head(log).text>> ELSE <<>>)
         \o TextsOfKind(Tail(log), kind)

\* C19: the evidence trail runs from contributions to penalties: every kudos
\* line of the rendered log precedes every penalty line, and the log holds
\* exactly the kudos evidence and the penalty evidence of the result, each in
\* its own order.
C19_KudosBeforePenalties ==
    /\ \A i, j \in 1..Len(view.log) :
          (view.log[i].kind = "PEER KUDOS" /\ view.log[j].kind = "PENALTY") => i < j
    /\ TextsOfKind(view.log, "PEER KUDOS") = view.summary.kudos_evidence
    /\ TextsOfKind(view.log, "PENALTY") = view.summary.penalty_evidence
    /\ Len(view.log) = Len(view.summary.kudos_evidence) + Len(view.summary.penalty_evidence)

\* a rendered log with several lines of each kind
C19_SeveralOfEachKindRendered ==
    /\ Len(view.summary.kudos_evidence) >= 2
    /\ Len(view.summary.penalty_evidence) >= 2
    /\ Len(view.log) >= 4

\* C20: the endpoint of a run is fixed at its start: every request of the run
\* that is in flight targets the one base URL configured when the run started
\* (the URL setting with one trailing slash removed), and while the run is in
\* progress neither the setting nor the base in use changes.
C20_EndpointFixedForRun ==
    /\ [](pc # "idle" =>
            /\ API_BASE = StripTrailingSlash(apiUrl)
            /\ \A u \in UserIds : \A k \in 1..Len(inflight[u]) : inflight[u][k] = API_BASE)
    /\ [][(pc # "idle" /\ pc' # "idle") =>
            /\ API_BASE' = API_BASE
            /\ apiUrl' = apiUrl
            /\ \A u \in UserIds : \A k \in 1..Len(inflight[u]) :
                  k <= Len(inflight'[u]) => inflight'[u][k] = inflight[u][k]]_vars

\* a retry run started after the setting was changed to a URL ending in a
\* slash, with the requests of all five members in flight
C20_RunWithChangedEndpointInFlight ==
    /\ pc = "awaitAll"
    /\ apiUrl = <<"h", "/", "/">>
    /\ \A i \in 1..Len(PROVIDED_USER_IDS) : inflight[PROVIDED_USER_IDS[i]] = <<(<<"h", "/">>)>>

\* the answer carries zero base work, zero kudos and the neutral difficulty 1.0
IsZeroWorkReply(reply) ==
    /\ reply.kind = "json"
    /\ "variables" \in DOMAIN reply.data
    /\ reply.data.variables.base_points = 0
    /\ reply.data.variables.peer_kudos_count = 0
    /\ reply.data.variables.difficulty_factor = 10

\* C21: a member with zero base work, zero kudos and neutral multipliers still
\* gets a result, not an error, and its raw score is minus the penalty: the
\* call fulfils, the member is kept by loadData, and both the final_score and
\* the score handed to the metrics generator equal -penalty.
C21_ZeroWorkScoreIsMinusPenalty ==
    \A k \in 1..Len(calls) :
        IsZeroWorkReply(calls[k].reply) =>
            LET pen == calls[k].reply.data.variables.blocker_penalty_total
                r   == MemberResult(MakeUser(calls[k].userId), calls[k].settled)
            IN  /\ IsFulfilled(calls[k])
                /\ r # Null
                /\ r.state = "value"
                /\ r.value.final_score = 0 - (pen * 10)
                /\ calls[k].settled.value.advanced.customer_impact = 0 - (pen * 10)

\* a call answered with zero work and a penalty of 5 has settled
C21_ZeroWorkWithPenaltyScored ==
    \E k \in 1..Len(calls) :
        /\ IsZeroWorkReply(calls[k].reply)
        /\ calls[k].reply.data.variables.blocker_penalty_total = 5
        /\ IsFulfilled(calls[k])

\* the promotion_readiness of a fulfilled call
ReadinessOf(call) == call.settled.value.advanced.growth.promotion_readiness

\* C22: promotion_readiness is non-decreasing in the member's score: of two
\* results of the same user, the one with the higher (or equal) score has the
\* higher (or equal) promotion_readiness, and the value lies in 0..100.
C22_PromotionReadinessMonotone ==
    \A j, k \in 1..Len(calls) :
        (IsFulfilled(calls[j]) /\ IsFulfilled(calls[k])) =>
            /\ ReadinessOf(calls[j]) \in 0..100
            /\ (CalculatedScore(calls[j].reply.data.variables)
                  <= CalculatedScore(calls[k].reply.data.variables))
               => ReadinessOf(calls[j]) <= ReadinessOf(calls[k])

\* two results of one user, one with a score of at most 130 and one above it
C22_ScoresOnBothSidesOfThreshold ==
    /\ Len(calls) = 2
    /\ IsFulfilled(calls[1]) /\ IsFulfilled(calls[2])
    /\ CalculatedScore(calls[1].reply.data.variables) <= 1300
    /\ CalculatedScore(calls[2].reply.data.variables) > 1300
    /\ ReadinessOf(calls[1]) < ReadinessOf(calls[2])

EndsWithSlash(url) == Len(url) > 0 /\ url[Len(url)] = "/"

\* C23: the stored base URL is normalized: it never ends with '/', and
\* setApiBaseUrl(getApiBaseUrl()) would leave it unchanged (setting is
\* idempotent).
C23_StoredBaseUrlNormalized ==
    /\ ~EndsWithSlash(API_BASE)
    /\ StripTrailingSlash(API_BASE) = API_BASE

\* C24: no score request is issued before login completes: while isLoggedIn
\* is false no run has started and no request is or was in flight; loadData
\* starts only when isLoggedIn is true; isLoggedIn becomes true only by the
\* login timer, which only a form submit arms.
C24_NoRequestBeforeLogin ==
    /\ [](~isLoggedIn =>
            /\ pc = "idle"
            /\ \A u \in UserIds : inflight[u] = <<>>
            /\ results = <<>>
            /\ performances = <<>>)
    /\ [][(pc = "idle" /\ pc' # "idle") => isLoggedIn]_vars
    /\ [][(~isLoggedIn /\ isLoggedIn') => (loginTimer /\ loginIsLoading)]_vars
    /\ [][(~loginTimer /\ loginTimer') => (~isLoggedIn /\ ~loginIsLoading /\ loginIsLoading')]_vars

\* the first run after the login: all member requests are in flight
C24_FirstRunAfterLogin ==
    /\ isLoggedIn
    /\ ~effectPending
    /\ pc = "awaitAll"
    /\ error = NULL
    /\ performances = <<>>
    /\ \A i \in 1..Len(PROVIDED_USER_IDS) : Len(inflight[PROVIDED_USER_IDS[i]]) = 1
    /\ API_BASE = DefaultApiBase

\* C25: the loading flag tracks the run: it is true while loadData is
\* suspended (from its start to its end), and once every member request of
\* the run has settled, loading eventually becomes false, whether or not any
\* score was computed.
C25_LoadingTracksRun ==
    /\ [](pc # "idle" => loading)
    /\ [][(pc = "idle" /\ pc' # "idle") => loading']_vars
    /\ (pc = "awaitAll" /\ \A i \in 1..Len(results) : results[i].state # "pending")
          ~> ~loading

\* a run in which every member failed has ended and lowered the flag
C25_FailedRunEnded ==
    /\ isLoggedIn
    /\ pc = "idle"
    /\ ~loading
    /\ Len(results) = Len(PROVIDED_USER_IDS)
    /\ \A i \in 1..Len(results) : results[i] = Null
    /\ error = ScoresFailedMessage

\* C26: after a completed run the error is set exactly when the roster is
\* non-empty and no member's score was computed (so it is null when at least
\* one member succeeded, though others failed), and every start of a run
\* clears the error.
C26_ErrorIffNoScoreComputed ==
    /\ []((isLoggedIn /\ pc = "idle" /\ ~loading) =>
            ((error # NULL) <=> (Len(users) > 0 /\ Len(performances) = 0)))
    /\ [][(pc = "idle" /\ pc' # "idle") => error' = NULL]_vars

\* a run in which some members failed and some succeeded has completed
C26_PartlyFailedRunCompleted ==
    /\ isLoggedIn /\ pc = "idle" /\ ~loading
    /\ \E i \in 1..Len(results) : results[i] = Null
    /\ \E i \in 1..Len(results) : results[i].state = "value"
    /\ error = NULL

\* the members of the roster whose result in res is a value, in roster order
SucceededIds(res) ==
    LET vals == FilterNonNull(res) IN [i \in 1..Len(vals) |-> vals[i].id]

\* C27: performances holds exactly the members whose computation succeeded in
\* the most recently completed run: after every completed run the published
\* list is the list of that run's successes, whatever was published before,
\* and it stays so until the next run completes.
C27_OnlyLatestRunPublished ==
    /\ []((isLoggedIn /\ ~loading) =>
            /\ [i \in 1..Len(performances) |-> performances[i].id] = SucceededIds(results)
            /\ performances = FilterNonNull(results))
    /\ [][(pc = "awaitAll" /\ pc' = "idle") => performances' = FilterNonNull(results)]_vars

\* a retry run, made after the endpoint was changed, has completed with some
\* members failed and the others published
C27_RetryRunPublished ==
    /\ isLoggedIn /\ pc = "idle" /\ ~loading
    /\ API_BASE = <<"h", "/">>
    /\ \E i \in 1..Len(results) : results[i] = Null
    /\ Len(performances) >= 2

\* what loadData makes of a settled call
ResultOf(call) == MemberResult(MakeUser(call.userId), call.settled)

\* C28: the derived indicators of a published performance agree with its
\* final_score: the score handed to the metrics generator is the final_score,
\* so burnout_risk is 85 exactly when final_score > 150, promotion_readiness
\* is 90 exactly when final_score > 130 and the attrition prediction is High
\* exactly when final_score > 160 (High attrition implies both others high).
C28_IndicatorsAgreeWithFinalScore ==
    \A k \in 1..Len(calls) :
        ResultOf(calls[k]).state = "value" =>
            LET p == ResultOf(calls[k]).value
            IN  /\ p.advanced.customer_impact = p.final_score
                /\ (p.advanced.wellness.burnout_risk = 85) <=> (p.final_score > 1500)
                /\ (p.advanced.wellness.burnout_risk = 30) <=> (p.final_score <= 1500)
                /\ (p.advanced.growth.promotion_readiness = 90) <=> (p.final_score > 1300)
                /\ (p.advanced.growth.promotion_readiness = 60) <=> (p.final_score <= 1300)
                /\ (p.advanced.attrition_risk_prediction = "High") <=> (p.final_score > 1600)
                /\ (p.advanced.attrition_risk_prediction = "Low") <=> (p.final_score <= 1600)
                /\ (p.advanced.attrition_risk_prediction = "High") =>
                      /\ p.advanced.wellness.burnout_risk = 85
                      /\ p.advanced.growth.promotion_readiness = 90

\* a result whose answer carried its own final_score, with High attrition, and
\* a result with a score between the promotion and the burnout thresholds
C28_ServerScoreAndMidScoreResults ==
    /\ Len(calls) = 2
    /\ ResultOf(calls[1]).state = "value" /\ ResultOf(calls[2]).state = "value"
    /\ "final_score" \in DOMAIN calls[1].reply.data
    /\ ResultOf(calls[1]).value.advanced.attrition_risk_prediction = "High"
    /\ ResultOf(calls[2]).value.final_score > 1300
    /\ ResultOf(calls[2]).value.final_score <= 1500

\* C29: the composition shown for a member accounts for the whole score: for
\* every published performance the three parts recomputed in UserDetail,
\* difficulty part plus kudos part minus penalty part, equal its final_score,
\* also when the answer of the server carried a final_score of its own.
C29_CompositionEqualsFinalScore ==
    \A i \in 1..Len(performances) :
        LET v == performances[i].variables
        IN  difficultyScore(v) + kudosScore(v) - penaltyScore(v) = performances[i].final_score

\* a published member whose answer carried final_score 99 while the formula
\* gives 171
C29_ServerScoreOverridden ==
    /\ isLoggedIn /\ ~loading
    /\ \E i \in 1..Len(performances) :
          /\ performances[i].variables = Variables(130, 12, 10, 0)
          /\ performances[i].final_score = 1710

\* C30: the top performer is the member shown first on the leaderboard: for
\* every non-empty published list, lists in which several members share the
\* highest final_score included, topPerformer is the first entry of chartData.
C30_TopPerformerLeadsLeaderboard ==
    (isLoggedIn /\ ~loading /\ Len(performances) > 0) =>
        topPerformer(performances).id = chartData(performances)[1].id

====
